---- MODULE Spec2Model ----
(***************************************************************************)
(* The session / presence core of RideMapper: the SessionManager service   *)
(* (server/src/services/SessionManager.ts), the gateway table it writes    *)
(* through Prisma (sessions, routes) and the socket handlers that drive    *)
(* it (the server's index.ts).                                             *)
(*                                                                         *)
(* Granularity.  A handler runs from one `await` of a gateway call to the  *)
(* next: the synchronous part of a handler is one action, and every        *)
(* resumption after a gateway call is one action that performs the gateway *)
(* call's effect and the code that follows it up to the next gateway call. *)
(* Awaits of functions that make no gateway call resume in the same turn   *)
(* of the event loop and do not split an action.  Every gateway call may   *)
(* raise (the gateway is unreachable): \E up \in BOOLEAN.                  *)
(*                                                                         *)
(* Time.  Only "createdAt is more than 24 hours in the past" matters: the  *)
(* set `expired`.  A session crosses that line only while no handler is    *)
(* suspended (no request stays in flight for a day).                       *)
(***************************************************************************)
EXTENDS Integers, Sequences, FiniteSets, TLC

\* ---- bounds of the model ----
MaxSessions == 2        \* session ids ever allocated (uuidv4)
MaxParticipants == 3    \* participant ids ever allocated (uuidv4)
NumPins == 2            \* values generatePin can draw (stands for 100000..999999)
NumConns == 2           \* socket connections
MaxRoutes == 1          \* routes ever created in the gateway
NumCallerIds == 1       \* manager ids a client can supply to join-as-manager
LifeSessions == 1       \* sessions created in a behaviour of Spec
NumPoints == 2          \* point lists a route can hold
NumLocations == 2       \* positions a location update can carry
MaxTime == 2            \* readings of Date.now() that are told apart
NumContents == 2        \* message texts
NumNonces == 1          \* random suffixes of a message id that are told apart

None == 0               \* `undefined` / null
NoRoute == [id |-> None, points |-> None]          \* session.route undefined
NoLocation == [at |-> None, timestamp |-> None]    \* participant.location undefined

SIDs == 1..MaxSessions
UuidPIDs == 1..MaxParticipants
CallerIds == (MaxParticipants + 1)..(MaxParticipants + NumCallerIds)
PIDs == UuidPIDs \cup CallerIds
Pins == 1..NumPins
Conns == 1..NumConns
RouteIds == 1..MaxRoutes
Points == 1..NumPoints
Locations == 1..NumLocations
Times == 1..MaxTime
Contents == 1..NumContents
Nonces == 1..NumNonces
\* a session id no session ever had
UnknownSid == MaxSessions + 1

VARIABLES
  activeSessions,       \* Map<sessionId, Session>
  sessionsByPin,        \* Map<pin, sessionId>
  participantSessions,  \* Map<participantId, sessionId>
  dbSessions,           \* the gateway's sessions table
  dbRoutes,             \* the gateway's routes table: id -> points
  expired,              \* sessions created more than 24 hours ago
  rooms,                \* socket.io rooms: connection -> session ids joined
  pending,              \* the suspended handler of each connection
  sweep,                \* the cleanup job: "idle" or "reload"
  nextSid, nextPid,     \* uuids handed out so far
  last,                 \* outcome of the handler step just taken
  emitted               \* emits of the handler step just taken, in order

mem == <<activeSessions, sessionsByPin, participantSessions>>
vars == <<activeSessions, sessionsByPin, participantSessions, dbSessions, dbRoutes,
          expired, rooms, pending, sweep, nextSid, nextPid, last, emitted>>

\* ---- maps ----
EmptyMap == [x \in {} |-> None]
Put(f, k, v) == [x \in (DOMAIN f) \cup {k} |-> IF x = k THEN v ELSE f[x]]
Drop(f, K) == [x \in (DOMAIN f) \ K |-> f[x]]
Min(S) == CHOOSE x \in S : \A y \in S : x <= y
Max(S) == CHOOSE x \in S : \A y \in S : x >= y

\* ---- handler bookkeeping ----
Idle == [op |-> "idle", pc |-> "idle", sid |-> None, pid |-> None, rid |-> None,
         pin |-> None, live |-> TRUE, held |-> {}, route |-> NoRoute, got |-> NoRoute,
         points |-> None]
Outcome(op, c, ok, sid, pid, pin, snap) ==
  [op |-> op, conn |-> c, ok |-> ok, sid |-> sid, pid |-> pid, pin |-> pin, snap |-> snap,
   wasManager |-> FALSE, existing |-> FALSE, rid |-> None, error |-> ""]
Emit(ev, c, sid, pid, rm) ==
  [ev |-> ev, sid |-> sid, pid |-> pid, to |-> {d \in Conns : sid \in rm[d]} \ {c}]
Quiet == \A c \in Conns : pending[c].op = "idle"

\* A suspended endSession, assignRouteToSession or updateSessionRoute holds a
\* reference to the Session object it read.  When the map entry is replaced or
\* deleted, the reference keeps the old object.
Detach(p, sids) ==
  IF p.op # "idle" /\ p.live /\ p.sid \in sids /\ p.sid \in DOMAIN activeSessions
  THEN [p EXCEPT !.live = FALSE, !.held = DOMAIN activeSessions[p.sid].participants]
  ELSE p
HeldKeys(p) ==
  IF p.live /\ p.sid \in DOMAIN activeSessions
  THEN DOMAIN activeSessions[p.sid].participants
  ELSE p.held

\* ---- Participant objects ----
\* (mutant) a participant that joins is stored offline
\* joinedAt and lastSeen of a new participant read the clock before any location
\* update that follows: the reading 0.
NewParticipant_Offline(id) ==
  [id |-> id, isOnline |-> FALSE, location |-> NoLocation, lastSeen |-> 0]
NewParticipant(id) == [id |-> id, isOnline |-> TRUE, location |-> NoLocation, lastSeen |-> 0]
ManagerParticipant(id) == [id |-> id, isOnline |-> TRUE, location |-> NoLocation, lastSeen |-> 0]
JoinedManager(id) ==
  [id |-> id, isOnline |-> TRUE, location |-> NoLocation, lastSeen |-> 0, isManager |-> TRUE]
IsManagerFlag(p) == "isManager" \in DOMAIN p /\ p.isManager

\* ---- Session objects ----
\* mapPrismaRouteToRoute: the Route object of a routes row
RouteOf(rid) == [id |-> rid, points |-> dbRoutes[rid]]
\* include: { route: true }: the sessions row with the routes row it refers to
IncludeRoute(s) ==
  [pin |-> dbSessions[s].pin, managerId |-> dbSessions[s].managerId,
   routeId |-> dbSessions[s].routeId, isActive |-> dbSessions[s].isActive,
   route |-> IF dbSessions[s].routeId \in DOMAIN dbRoutes
             THEN RouteOf(dbSessions[s].routeId) ELSE NoRoute]
mapPrismaSessionToSession(row) ==
  [pin |-> row.pin, managerId |-> row.managerId, routeId |-> row.routeId,
   route |-> row.route, participants |-> EmptyMap, isActive |-> row.isActive]
getAllActiveSessions == {s \in DOMAIN activeSessions : activeSessions[s].isActive}

\* (mutant) the sessions table without the unique index on pin
PinTaken_NoUniqueIndex(pin) == FALSE
\* pin @unique: a row with this pin exists, active or not
PinTaken(pin) == \E s \in DOMAIN dbSessions : dbSessions[s].pin = pin

Init ==
  /\ activeSessions = EmptyMap
  /\ sessionsByPin = EmptyMap
  /\ participantSessions = EmptyMap
  /\ dbSessions = EmptyMap
  /\ dbRoutes = EmptyMap
  /\ expired = {}
  /\ rooms = [c \in Conns |-> {}]
  /\ pending = [c \in Conns |-> Idle]
  /\ sweep = "idle"
  /\ nextSid = 0
  /\ nextPid = 0
  /\ last = Outcome("init", None, TRUE, None, None, None, {})
  /\ emitted = << >>

\* A step that answers nobody: a handler suspending, the job, the clock.
Await(c) == Outcome("step", None, TRUE, None, None, None, {})
CreatesInFlight == Cardinality({c \in Conns : pending[c].op = "create"})
\* routes rows the requests in flight are about to create
RoutesInFlight == Cardinality({c \in Conns : pending[c].pc = "createRoute"})
SnapshotOf(sessions, s) == DOMAIN sessions[s].participants

\* ---- session:create -> SessionManager.createSession ----
\* getAnyActiveSession, memory part: an active session in memory is returned at once
\* and the handler joins the socket to its room and replies.
CreateStart(c, rid) ==
  /\ pending[c].op = "idle"
  /\ IF getAllActiveSessions # {}
     THEN LET s == Min(getAllActiveSessions) IN
          /\ rooms' = [rooms EXCEPT ![c] = @ \cup {s}]
          /\ last' = [Outcome("create", c, TRUE, s, activeSessions[s].managerId,
                              activeSessions[s].pin, SnapshotOf(activeSessions, s))
                        EXCEPT !.existing = TRUE, !.rid = rid]
          /\ UNCHANGED pending
     ELSE /\ nextSid + CreatesInFlight < MaxSessions
          /\ nextPid + CreatesInFlight < MaxParticipants
          /\ pending' = [pending EXCEPT ![c] = [Idle EXCEPT !.op = "create",
                                                             !.pc = "findFirst", !.rid = rid]]
          /\ last' = Await(c)
          /\ UNCHANGED rooms
  /\ emitted' = << >>
  /\ UNCHANGED <<mem, dbSessions, dbRoutes, expired, sweep, nextSid, nextPid>>

\* getAnyActiveSession, gateway part: findFirst({isActive: true}, createdAt desc).
\* A row found is cached in memory (with an empty participants map) and returned;
\* a gateway error is caught and reads as "no active session".
CreateFindFirst(c) ==
  /\ pending[c].op = "create" /\ pending[c].pc = "findFirst"
  /\ \E up \in BOOLEAN :
       LET act == {s \in DOMAIN dbSessions : dbSessions[s].isActive} IN
       IF up /\ act # {}
       THEN LET s == Max(act)
                session == mapPrismaSessionToSession(IncludeRoute(s)) IN
            /\ activeSessions' = Put(activeSessions, s, session)
            /\ sessionsByPin' = Put(sessionsByPin, session.pin, s)
            /\ pending' = [d \in Conns |-> IF d = c THEN Idle ELSE Detach(pending[d], {s})]
            /\ rooms' = [rooms EXCEPT ![c] = @ \cup {s}]
            /\ last' = [Outcome("create", c, TRUE, s, session.managerId, session.pin, {})
                          EXCEPT !.existing = TRUE, !.rid = pending[c].rid]
            /\ UNCHANGED participantSessions
       ELSE /\ pending' = [pending EXCEPT ![c].pc =
                             IF pending[c].rid = None THEN "insert" ELSE "getRoute"]
            /\ last' = Await(c)
            /\ UNCHANGED <<mem, rooms>>
  /\ emitted' = << >>
  /\ UNCHANGED <<dbSessions, dbRoutes, expired, sweep, nextSid, nextPid>>

\* (mutant) a route that is not found reads as a route without points
getRoute_Placeholder(up, routeId) ==
  IF up /\ routeId \in DOMAIN dbRoutes THEN RouteOf(routeId)
  ELSE [id |-> routeId, points |-> None]
\* RouteService.getRoute: the route of the row, null when there is no such row
\* or the gateway raises.
getRoute(up, routeId) ==
  IF up /\ routeId \in DOMAIN dbRoutes THEN RouteOf(routeId) ELSE NoRoute

\* createSession validates the route: null throws 'Route not found', which the
\* handler turns into a failure reply.
CreateGetRoute(c) ==
  /\ pending[c].op = "create" /\ pending[c].pc = "getRoute"
  /\ \E up \in BOOLEAN :
       LET foundRoute == getRoute(up, pending[c].rid) IN
       IF foundRoute # NoRoute
       THEN /\ pending' = [pending EXCEPT ![c].pc = "insert", ![c].route = foundRoute]
            /\ last' = Await(c)
       ELSE /\ pending' = [pending EXCEPT ![c] = Idle]
            /\ last' = [Outcome("create", c, FALSE, None, None, None, {})
                          EXCEPT !.rid = pending[c].rid, !.error = "Route not found"]
  /\ emitted' = << >>
  /\ UNCHANGED <<mem, dbSessions, dbRoutes, expired, rooms, sweep, nextSid, nextPid>>

\* prisma.session.create, then the session object with the manager as its only
\* participant is cached under the three maps.  The row is refused when the pin is
\* not unique or the route row is gone; the error of the unique constraint names
\* the pin, and the handler passes the error's message on in its reply.
CreateInsert(c) ==
  /\ pending[c].op = "create" /\ pending[c].pc = "insert"
  /\ \E up \in BOOLEAN, pin \in Pins :
       LET sessionId == nextSid + 1
           managerId == nextPid + 1
           rid == pending[c].rid IN
       IF up /\ ~PinTaken(pin) /\ (rid = None \/ rid \in DOMAIN dbRoutes)
       THEN LET session == [pin |-> pin, managerId |-> managerId, routeId |-> rid,
                            route |-> pending[c].route,
                            participants |-> Put(EmptyMap, managerId, ManagerParticipant(managerId)),
                            isActive |-> TRUE] IN
            /\ dbSessions' = Put(dbSessions, sessionId,
                                 [pin |-> pin, managerId |-> managerId, routeId |-> rid,
                                  isActive |-> TRUE])
            /\ activeSessions' = Put(activeSessions, sessionId, session)
            /\ sessionsByPin' = Put(sessionsByPin, pin, sessionId)
            /\ participantSessions' = Put(participantSessions, managerId, sessionId)
            /\ nextSid' = sessionId
            /\ nextPid' = managerId
            /\ rooms' = [rooms EXCEPT ![c] = @ \cup {sessionId}]
            /\ pending' = [pending EXCEPT ![c] = Idle]
            /\ last' = [Outcome("create", c, TRUE, sessionId, managerId, pin, {managerId})
                          EXCEPT !.rid = rid]
       ELSE /\ pending' = [pending EXCEPT ![c] = Idle]
            /\ last' = [Outcome("create", c, FALSE, None, None,
                                IF up /\ PinTaken(pin) THEN pin ELSE None, {})
                          EXCEPT !.rid = rid, !.error = "gateway error"]
            /\ UNCHANGED <<mem, dbSessions, nextSid, nextPid, rooms>>
  /\ emitted' = << >>
  /\ UNCHANGED <<dbRoutes, expired, sweep>>

\* ---- route:create -> RouteService.createRoute ----
RouteCreate(c, points) ==
  /\ pending[c].op = "idle"
  /\ Cardinality(DOMAIN dbRoutes) + RoutesInFlight < MaxRoutes
  /\ \E up \in BOOLEAN :
       LET rid == Min(RouteIds \ DOMAIN dbRoutes) IN
       IF up
       THEN /\ dbRoutes' = Put(dbRoutes, rid, points)
            /\ last' = Outcome("route:create", None, TRUE, None, None, None, {})
            /\ emitted' = << [ev |-> "route:created", sid |-> None, pid |-> None, to |-> Conns] >>
       ELSE /\ last' = Outcome("route:create", None, FALSE, None, None, None, {})
            /\ emitted' = << >>
            /\ UNCHANGED dbRoutes
  /\ UNCHANGED <<mem, dbSessions, expired, rooms, pending, sweep, nextSid, nextPid>>

\* ---- route:delete -> RouteService.deleteRoute ----
\* callback of route:delete: success, or 'Route not found or cannot be deleted'
RouteDeleteReply(c, ok) ==
  /\ pending' = [pending EXCEPT ![c] = Idle]
  /\ last' = [Outcome("route:delete", c, ok, None, None, None, {})
                EXCEPT !.rid = pending[c].rid,
                       !.error = IF ok THEN "" ELSE "Route not found or cannot be deleted"]
\* The handler calls deleteRoute, which is suspended at prisma.route.findUnique.
RouteDeleteStart(c, routeId) ==
  /\ pending[c].op = "idle"
  /\ pending' = [pending EXCEPT ![c] = [Idle EXCEPT !.op = "route:delete",
                                                     !.pc = "deleteFind", !.rid = routeId]]
  /\ last' = Await(c)
  /\ emitted' = << >>
  /\ UNCHANGED <<mem, dbSessions, dbRoutes, expired, rooms, sweep, nextSid, nextPid>>
\* findUnique: no such route returns false; a raised call is caught, false as well
RouteDeleteFind(c) ==
  /\ pending[c].op = "route:delete" /\ pending[c].pc = "deleteFind"
  /\ \E up \in BOOLEAN :
       IF up /\ pending[c].rid \in DOMAIN dbRoutes
       THEN /\ pending' = [pending EXCEPT ![c].pc = "deleteCount"]
            /\ last' = Await(c)
       ELSE RouteDeleteReply(c, FALSE)
  /\ emitted' = << >>
  /\ UNCHANGED <<mem, dbSessions, dbRoutes, expired, rooms, sweep, nextSid, nextPid>>
\* prisma.session.count({routeId, isActive: true}) > 0
RouteInUse(routeId) ==
  \E s \in DOMAIN dbSessions : dbSessions[s].routeId = routeId /\ dbSessions[s].isActive
\* count: a route in use throws 'Cannot delete route ...', caught, false
RouteDeleteCount(c) ==
  /\ pending[c].op = "route:delete" /\ pending[c].pc = "deleteCount"
  /\ \E up \in BOOLEAN :
       IF up /\ ~RouteInUse(pending[c].rid)
       THEN /\ pending' = [pending EXCEPT ![c].pc = "deleteRow"]
            /\ last' = Await(c)
       ELSE RouteDeleteReply(c, FALSE)
  /\ emitted' = << >>
  /\ UNCHANGED <<mem, dbSessions, dbRoutes, expired, rooms, sweep, nextSid, nextPid>>
\* sessions_routeId_fkey ... ON DELETE SET NULL
SetNullRouteId(routeId) ==
  [s \in DOMAIN dbSessions |->
     IF dbSessions[s].routeId = routeId THEN [dbSessions[s] EXCEPT !.routeId = None]
                                        ELSE dbSessions[s]]
\* prisma.route.delete: the row goes and the sessions rows that refer to it get a
\* null routeId; a row already gone raises, caught, false
RouteDeleteRow(c) ==
  /\ pending[c].op = "route:delete" /\ pending[c].pc = "deleteRow"
  /\ \E up \in BOOLEAN :
       IF up /\ pending[c].rid \in DOMAIN dbRoutes
       THEN /\ dbRoutes' = Drop(dbRoutes, {pending[c].rid})
            /\ dbSessions' = SetNullRouteId(pending[c].rid)
            /\ RouteDeleteReply(c, TRUE)
       ELSE /\ RouteDeleteReply(c, FALSE)
            /\ UNCHANGED <<dbSessions, dbRoutes>>
  /\ emitted' = << >>
  /\ UNCHANGED <<mem, expired, rooms, sweep, nextSid, nextPid>>

\* ---- session:join -> SessionManager.joinSession ----
\* (mutant) an unknown pin falls back to the active session, as createSession does
JoinTarget_Fallback(pin) ==
  IF pin \in DOMAIN sessionsByPin THEN sessionsByPin[pin]
  ELSE IF getAllActiveSessions # {} THEN Min(getAllActiveSessions) ELSE None
\* The pin validation of joinSession: the session the pin admits to, or None.
JoinTarget(pin) ==
  IF pin \notin DOMAIN sessionsByPin THEN None
  ELSE LET sessionId == sessionsByPin[pin] IN
       IF sessionId \notin DOMAIN activeSessions \/ ~activeSessions[sessionId].isActive
       THEN None ELSE sessionId

JoinSession(c, pin) ==
  /\ pending[c].op = "idle"
  /\ LET sessionId == JoinTarget(pin) IN
     IF sessionId = None
     THEN /\ last' = Outcome("join", None, FALSE, None, None, pin, {})
          /\ emitted' = << >>
          /\ UNCHANGED <<mem, rooms, nextPid>>
     ELSE LET participantId == nextPid + 1
              session == activeSessions[sessionId] IN
          /\ nextPid + CreatesInFlight < MaxParticipants
          /\ activeSessions' = [activeSessions EXCEPT ![sessionId].participants =
                                  Put(session.participants, participantId,
                                      NewParticipant(participantId))]
          /\ participantSessions' = Put(participantSessions, participantId, sessionId)
          /\ nextPid' = participantId
          /\ rooms' = [rooms EXCEPT ![c] = @ \cup {sessionId}]
          /\ emitted' = << Emit("session:joined", c, sessionId, participantId, rooms') >>
          /\ last' = Outcome("join", c, TRUE, sessionId, participantId, pin,
                             SnapshotOf(activeSessions', sessionId))
          /\ UNCHANGED sessionsByPin
  /\ UNCHANGED <<dbSessions, dbRoutes, expired, pending, sweep, nextSid>>

\* ---- session:join-as-manager -> SessionManager.joinAsManager ----
\* joinAsManager after its pin validation: a Participant flagged isManager = true is
\* inserted under the manager id the caller supplies.
joinAsManager(session, managerId) ==
  Put(session.participants, managerId, JoinedManager(managerId))

JoinAsManager(c, pin, managerId) ==
  /\ pending[c].op = "idle"
  /\ LET sessionId == JoinTarget(pin) IN
     IF sessionId = None
     THEN /\ last' = Outcome("join-as-manager", None, FALSE, None, None, pin, {})
          /\ emitted' = << >>
          /\ UNCHANGED <<mem, rooms>>
     ELSE LET session == activeSessions[sessionId] IN
          /\ activeSessions' = [activeSessions EXCEPT ![sessionId].participants =
                                  joinAsManager(session, managerId)]
          /\ participantSessions' = Put(participantSessions, managerId, sessionId)
          /\ rooms' = [rooms EXCEPT ![c] = @ \cup {sessionId}]
          /\ emitted' = << Emit("session:joined", c, sessionId, managerId, rooms') >>
          /\ last' = Outcome("join-as-manager", c, TRUE, sessionId, managerId, pin,
                             SnapshotOf(activeSessions', sessionId))
          /\ UNCHANGED sessionsByPin
  /\ UNCHANGED <<dbSessions, dbRoutes, expired, pending, sweep, nextSid, nextPid>>

\* ---- endSession, after prisma.session.update({isActive: false}) ----
\* The update raises when the gateway is down or the row no longer exists.
EndUpdateOk(up, sessionId) == up /\ sessionId \in DOMAIN dbSessions
\* (mutant) endSession forgets activeSessions.delete(sessionId)
EndSessionCommit_KeepsSession(c) ==
  LET p == pending[c] IN
  /\ dbSessions' = [dbSessions EXCEPT ![p.sid].isActive = FALSE]
  /\ participantSessions' = Drop(participantSessions, HeldKeys(p))
  /\ sessionsByPin' = Drop(sessionsByPin, {p.pin})
  /\ activeSessions' = activeSessions
  /\ pending' = [pending EXCEPT ![c] = Idle]
\* The memory clean-up of endSession, by the request p that holds the session.
EndSessionCommit(c) ==
  LET p == pending[c] IN
  /\ dbSessions' = [dbSessions EXCEPT ![p.sid].isActive = FALSE]
  /\ participantSessions' = Drop(participantSessions, HeldKeys(p))
  /\ sessionsByPin' = Drop(sessionsByPin, {p.pin})
  /\ activeSessions' = Drop(activeSessions, {p.sid})
  /\ pending' = [d \in Conns |-> IF d = c THEN Idle ELSE Detach(pending[d], {p.sid})]

\* ---- session:leave -> SessionManager.leaveSession ----
WasManager(session, participantId) == participantId = session.managerId
\* (mutant) the leave clears the whole participants map
WithoutParticipant_Clear(session, participantId) == EmptyMap
\* session.participants.delete(participantId)
WithoutParticipant(session, participantId) == Drop(session.participants, {participantId})

LeaveStart(c, participantId) ==
  /\ pending[c].op = "idle"
  /\ IF \/ participantId \notin DOMAIN participantSessions
        \/ participantSessions[participantId] \notin DOMAIN activeSessions
        \/ participantId \notin
             DOMAIN activeSessions[participantSessions[participantId]].participants
     THEN /\ last' = Outcome("leave", None, FALSE, None, None, None, {})
          /\ emitted' = << >>
          /\ UNCHANGED <<mem, rooms, pending>>
     ELSE LET sessionId == participantSessions[participantId]
              session == activeSessions[sessionId] IN
          /\ activeSessions' = [activeSessions EXCEPT ![sessionId].participants =
                                  WithoutParticipant(session, participantId)]
          /\ participantSessions' = Drop(participantSessions, {participantId})
          /\ UNCHANGED sessionsByPin
          /\ IF WasManager(session, participantId)
             THEN /\ pending' = [pending EXCEPT ![c] =
                                   [Idle EXCEPT !.op = "leave", !.pc = "endUpdate",
                                                !.sid = sessionId, !.pid = participantId,
                                                !.pin = session.pin]]
                  /\ last' = Await(c)
                  /\ emitted' = << >>
                  /\ UNCHANGED rooms
             ELSE /\ rooms' = [rooms EXCEPT ![c] = @ \ {sessionId}]
                  /\ emitted' = << Emit("session:left", c, sessionId, participantId, rooms') >>
                  /\ last' = Outcome("leave", c, TRUE, sessionId, participantId, None, {})
                  /\ UNCHANGED pending
  /\ UNCHANGED <<dbSessions, dbRoutes, expired, sweep, nextSid, nextPid>>

\* The manager's leave resumes after endSession: whatever endSession returned,
\* leaveSession reports success and the handler emits session:left and session:ended.
LeaveEndUpdate(c) ==
  /\ pending[c].op = "leave" /\ pending[c].pc = "endUpdate"
  /\ LET p == pending[c] IN
     /\ \E up \in BOOLEAN :
          IF EndUpdateOk(up, p.sid)
          THEN EndSessionCommit(c)
          ELSE /\ pending' = [pending EXCEPT ![c] = Idle]
               /\ UNCHANGED <<mem, dbSessions>>
     /\ rooms' = [rooms EXCEPT ![c] = @ \ {p.sid}]
     /\ emitted' = << Emit("session:left", c, p.sid, p.pid, rooms'),
                      Emit("session:ended", c, p.sid, None, rooms') >>
     /\ last' = [Outcome("leave", c, TRUE, p.sid, p.pid, None, {}) EXCEPT !.wasManager = TRUE]
  /\ UNCHANGED <<dbRoutes, expired, sweep, nextSid, nextPid>>

\* ---- session:end -> SessionManager.endSession ----
\* (mutant) the handler does not compare managerId
EndAuthorized_AnyCaller(sessionId, managerId) == sessionId \in DOMAIN activeSessions
\* session && session.managerId === data.managerId
EndAuthorized(sessionId, managerId) ==
  sessionId \in DOMAIN activeSessions /\ activeSessions[sessionId].managerId = managerId

\* session:ended goes out before endSession is awaited.
EndStart(c, sessionId, managerId) ==
  /\ pending[c].op = "idle"
  /\ IF EndAuthorized(sessionId, managerId)
     THEN /\ emitted' = << Emit("session:ended", c, sessionId, None, rooms) >>
          /\ pending' = [pending EXCEPT ![c] =
                           [Idle EXCEPT !.op = "end", !.pc = "endUpdate", !.sid = sessionId,
                                        !.pid = managerId,
                                        !.pin = activeSessions[sessionId].pin]]
          /\ last' = Await(c)
     ELSE /\ emitted' = << >>
          /\ last' = Outcome("end", None, FALSE, sessionId, None, None, {})
          /\ UNCHANGED pending
  /\ UNCHANGED <<mem, dbSessions, dbRoutes, expired, rooms, sweep, nextSid, nextPid>>

\* (mutant) the memory clean-up runs before the gateway call, so a failed call
\* has already evicted the session
EndUpdate_EvictsOnFailure(c) ==
  /\ pending[c].op = "end" /\ pending[c].pc = "endUpdate"
  /\ LET p == pending[c] IN
     \E up \in BOOLEAN :
       IF EndUpdateOk(up, p.sid)
       THEN /\ EndSessionCommit(c)
            /\ last' = Outcome("end", None, TRUE, p.sid, None, None, {})
       ELSE /\ participantSessions' = Drop(participantSessions, HeldKeys(p))
            /\ sessionsByPin' = Drop(sessionsByPin, {p.pin})
            /\ activeSessions' = Drop(activeSessions, {p.sid})
            /\ pending' = [d \in Conns |-> IF d = c THEN Idle
                                                    ELSE Detach(pending[d], {p.sid})]
            /\ last' = [Outcome("end", None, FALSE, p.sid, None, None, {})
                          EXCEPT !.error = "Error ending session"]
            /\ UNCHANGED dbSessions
  /\ emitted' = << >>
  /\ UNCHANGED <<dbRoutes, expired, rooms, sweep, nextSid, nextPid>>
\* endSession resumes after prisma.session.update: the clean-up of memory on
\* success; on a raised call the catch logs the error and returns false.
EndUpdate(c) ==
  /\ pending[c].op = "end" /\ pending[c].pc = "endUpdate"
  /\ LET p == pending[c] IN
     \E up \in BOOLEAN :
       IF EndUpdateOk(up, p.sid)
       THEN /\ EndSessionCommit(c)
            /\ last' = Outcome("end", None, TRUE, p.sid, None, None, {})
       ELSE /\ pending' = [pending EXCEPT ![c] = Idle]
            /\ last' = [Outcome("end", None, FALSE, p.sid, None, None, {})
                          EXCEPT !.error = "Error ending session"]
            /\ UNCHANGED <<mem, dbSessions>>
  /\ emitted' = << >>
  /\ UNCHANGED <<dbRoutes, expired, rooms, sweep, nextSid, nextPid>>

\* ---- the hourly job: SessionManager.cleanup ----
\* DatabaseService.cleanup: deleteMany({OR: [isActive = false, createdAt < now - 24h]}).
Doomed == {s \in DOMAIN dbSessions : ~dbSessions[s].isActive \/ s \in expired}
CleanupDelete ==
  /\ sweep = "idle"
  /\ \E up \in BOOLEAN :
       dbSessions' = IF up THEN Drop(dbSessions, Doomed) ELSE dbSessions
  /\ expired' = expired \cap ((DOMAIN dbSessions') \cup DOMAIN activeSessions)
  /\ sweep' = "reload"
  /\ last' = Await(None)
  /\ emitted' = << >>
  /\ UNCHANGED <<mem, dbRoutes, rooms, pending, nextSid, nextPid>>

\* SessionManager.initialize: every active row is mapped to a fresh Session object
\* and set in activeSessions and sessionsByPin.
initialize(rows) ==
  /\ activeSessions' = [s \in (DOMAIN activeSessions) \cup rows |->
                          IF s \in rows THEN mapPrismaSessionToSession(IncludeRoute(s))
                          ELSE activeSessions[s]]
  /\ sessionsByPin' = [pin \in (DOMAIN sessionsByPin) \cup {dbSessions[s].pin : s \in rows} |->
                         IF \E s \in rows : dbSessions[s].pin = pin
                         THEN CHOOSE s \in rows : dbSessions[s].pin = pin
                         ELSE sessionsByPin[pin]]
  /\ pending' = [d \in Conns |-> Detach(pending[d], rows)]

CleanupReload ==
  /\ sweep = "reload"
  /\ \E up \in BOOLEAN :
       IF up
       THEN initialize({s \in DOMAIN dbSessions : dbSessions[s].isActive})
       ELSE UNCHANGED <<activeSessions, sessionsByPin, pending>>
  /\ sweep' = "idle"
  /\ last' = Await(None)
  /\ emitted' = << >>
  /\ UNCHANGED <<participantSessions, dbSessions, dbRoutes, expired, rooms, nextSid, nextPid>>

\* ---- the clock ----
TimePasses(s) ==
  /\ Quiet /\ sweep = "idle"
  /\ s \in ((DOMAIN dbSessions) \cup DOMAIN activeSessions) \ expired
  /\ expired' = expired \cup {s}
  /\ last' = Await(None)
  /\ emitted' = << >>
  /\ UNCHANGED <<mem, dbSessions, dbRoutes, rooms, pending, sweep, nextSid, nextPid>>

\* ---- route updates of a session ----
RouteOps == {"assign", "create-route", "update-route"}
\* (mutant) the guard does not compare managerId
ManagesSession_NoOwnerCheck(sessionId, managerId) ==
  /\ sessionId \in DOMAIN activeSessions
  /\ activeSessions[sessionId].isActive
\* The guard of assignRouteToSession, createSessionRoute and updateSessionRoute.
ManagesSession(sessionId, managerId) ==
  /\ sessionId \in DOMAIN activeSessions
  /\ activeSessions[sessionId].isActive
  /\ activeSessions[sessionId].managerId = managerId

EmitRoute(c, sid, route, rm) ==
  [ev |-> "route:updated", sid |-> sid, pid |-> None, route |-> route,
   to |-> {d \in Conns : sid \in rm[d]} \ {c}]
\* The request is answered with a failure and nothing else happens.
RouteRefused(op, c, sessionId, managerId) ==
  /\ last' = Outcome(op, c, FALSE, sessionId, managerId, None, {})
  /\ emitted' = << >>
\* The request is suspended at a gateway call.
RouteAwait(c, p) ==
  /\ pending' = [pending EXCEPT ![c] = p]
  /\ last' = Await(c)
  /\ emitted' = << >>

\* What the handler does once assignRouteToSession has returned `assigned`.
\* route:assign-to-session reads the session again and broadcasts its route;
\* session:create-route and session:update-route broadcast the route that was
\* created whatever assignRouteToSession returned.
AssignDone(c, assigned, route) ==
  LET p == pending[c] IN
  /\ pending' = [pending EXCEPT ![c] = Idle]
  /\ IF p.op = "assign"
     THEN /\ last' = Outcome("assign", c, assigned, p.sid, p.pid, None, {})
          /\ emitted' = IF /\ assigned
                           /\ p.sid \in DOMAIN activeSessions'
                           /\ activeSessions'[p.sid].route # NoRoute
                        THEN << EmitRoute(c, p.sid, activeSessions'[p.sid].route, rooms) >>
                        ELSE << >>
     ELSE /\ last' = Outcome(p.op, c, TRUE, p.sid, p.pid, None, {})
          /\ emitted' = << EmitRoute(c, p.sid, route, rooms) >>

\* route:assign-to-session -> assignRouteToSession: the guard
AssignStart(c, sessionId, routeId, managerId) ==
  /\ pending[c].op = "idle"
  /\ IF ManagesSession(sessionId, managerId)
     THEN RouteAwait(c, [Idle EXCEPT !.op = "assign", !.pc = "getRoute", !.sid = sessionId,
                                    !.pid = managerId, !.rid = routeId])
     ELSE RouteRefused("assign", c, sessionId, managerId) /\ UNCHANGED pending
  /\ UNCHANGED <<mem, dbSessions, dbRoutes, expired, rooms, sweep, nextSid, nextPid>>

\* assignRouteToSession: routeService.getRoute (null also on a gateway error)
AssignGetRoute(c) ==
  /\ pending[c].op \in RouteOps /\ pending[c].pc = "getRoute"
  /\ UNCHANGED <<mem, dbSessions, dbRoutes, expired, rooms, sweep, nextSid, nextPid>>
  /\ \E up \in BOOLEAN :
       IF up /\ pending[c].rid \in DOMAIN dbRoutes
       THEN RouteAwait(c, [pending[c] EXCEPT !.pc = "sessionUpdate",
                                             !.got = RouteOf(pending[c].rid)])
       ELSE AssignDone(c, FALSE, pending[c].route)

\* assignRouteToSession: prisma.session.update({routeId}), then routeId and route
\* are written to the Session object the guard read.
AssignUpdate(c) ==
  /\ pending[c].op \in RouteOps /\ pending[c].pc = "sessionUpdate"
  /\ LET p == pending[c] IN
     \E up \in BOOLEAN :
       IF up /\ p.sid \in DOMAIN dbSessions /\ p.rid \in DOMAIN dbRoutes
       THEN /\ dbSessions' = [dbSessions EXCEPT ![p.sid].routeId = p.rid]
            /\ activeSessions' =
                 IF p.live /\ p.sid \in DOMAIN activeSessions
                 THEN [activeSessions EXCEPT ![p.sid].routeId = p.rid, ![p.sid].route = p.got]
                 ELSE activeSessions
            /\ AssignDone(c, TRUE, p.route)
       ELSE /\ UNCHANGED <<activeSessions, dbSessions>>
            /\ AssignDone(c, FALSE, p.route)
  /\ UNCHANGED <<sessionsByPin, participantSessions, dbRoutes, expired, rooms, sweep,
                 nextSid, nextPid>>

\* session:create-route -> createSessionRoute: the guard
CreateRouteStart(c, sessionId, points, managerId) ==
  /\ pending[c].op = "idle"
  /\ IF ManagesSession(sessionId, managerId)
     THEN /\ Cardinality(DOMAIN dbRoutes) + RoutesInFlight < MaxRoutes
          /\ RouteAwait(c, [Idle EXCEPT !.op = "create-route", !.pc = "createRoute",
                                        !.sid = sessionId, !.pid = managerId,
                                        !.points = points])
     ELSE RouteRefused("create-route", c, sessionId, managerId) /\ UNCHANGED pending
  /\ UNCHANGED <<mem, dbSessions, dbRoutes, expired, rooms, sweep, nextSid, nextPid>>

\* createSessionRoute: routeService.createRoute (raises on a gateway error, which
\* createSessionRoute turns into null), then the guard of assignRouteToSession.
CreateRouteInsert(c) ==
  /\ pending[c].op \in RouteOps /\ pending[c].pc = "createRoute"
  /\ UNCHANGED <<mem, dbSessions, expired, rooms, sweep, nextSid, nextPid>>
  /\ LET p == pending[c] IN
     \E up \in BOOLEAN :
       IF up
       THEN LET rid == Min(RouteIds \ DOMAIN dbRoutes)
                route == [id |-> rid, points |-> p.points] IN
            /\ dbRoutes' = Put(dbRoutes, rid, p.points)
            /\ IF ManagesSession(p.sid, p.pid)
               THEN RouteAwait(c, [p EXCEPT !.pc = "getRoute", !.rid = rid, !.route = route,
                                            !.live = TRUE, !.held = {}])
               ELSE AssignDone(c, FALSE, route)
       ELSE /\ pending' = [pending EXCEPT ![c] = Idle]
            /\ RouteRefused(p.op, c, p.sid, p.pid)
            /\ UNCHANGED dbRoutes

\* session:update-route -> updateSessionRoute: the guard; a session without a
\* route gets one through createSessionRoute.
UpdateRouteStart(c, sessionId, points, managerId) ==
  /\ pending[c].op = "idle"
  /\ IF ManagesSession(sessionId, managerId)
     THEN IF activeSessions[sessionId].routeId = None
          THEN /\ Cardinality(DOMAIN dbRoutes) + RoutesInFlight < MaxRoutes
               /\ RouteAwait(c, [Idle EXCEPT !.op = "update-route", !.pc = "createRoute",
                                             !.sid = sessionId, !.pid = managerId,
                                             !.points = points])
          ELSE RouteAwait(c, [Idle EXCEPT !.op = "update-route", !.pc = "findRoute",
                                          !.sid = sessionId, !.pid = managerId,
                                          !.rid = activeSessions[sessionId].routeId,
                                          !.points = points])
     ELSE RouteRefused("update-route", c, sessionId, managerId) /\ UNCHANGED pending
  /\ UNCHANGED <<mem, dbSessions, dbRoutes, expired, rooms, sweep, nextSid, nextPid>>

\* routeService.updateRoute: prisma.route.findUnique
UpdateRouteFind(c) ==
  /\ pending[c].op = "update-route" /\ pending[c].pc = "findRoute"
  /\ \E up \in BOOLEAN :
       IF up /\ pending[c].rid \in DOMAIN dbRoutes
       THEN RouteAwait(c, [pending[c] EXCEPT !.pc = "routeUpdate"])
       ELSE /\ pending' = [pending EXCEPT ![c] = Idle]
            /\ RouteRefused("update-route", c, pending[c].sid, pending[c].pid)
  /\ UNCHANGED <<mem, dbSessions, dbRoutes, expired, rooms, sweep, nextSid, nextPid>>

\* routeService.updateRoute: prisma.route.update, then the route is written to the
\* Session object the guard read and the handler broadcasts it.
UpdateRouteWrite(c) ==
  /\ pending[c].op = "update-route" /\ pending[c].pc = "routeUpdate"
  /\ LET p == pending[c] IN
     \E up \in BOOLEAN :
       IF up /\ p.rid \in DOMAIN dbRoutes
       THEN LET route == [id |-> p.rid, points |-> p.points] IN
            /\ dbRoutes' = [dbRoutes EXCEPT ![p.rid] = p.points]
            /\ activeSessions' =
                 IF p.live /\ p.sid \in DOMAIN activeSessions
                 THEN [activeSessions EXCEPT ![p.sid].route = route]
                 ELSE activeSessions
            /\ last' = Outcome("update-route", c, TRUE, p.sid, p.pid, None, {})
            /\ emitted' = << EmitRoute(c, p.sid, route, rooms) >>
       ELSE /\ RouteRefused("update-route", c, p.sid, p.pid)
            /\ UNCHANGED <<activeSessions, dbRoutes>>
  /\ pending' = [pending EXCEPT ![c] = Idle]
  /\ UNCHANGED <<sessionsByPin, participantSessions, dbSessions, expired, rooms, sweep,
                 nextSid, nextPid>>

\* ---- location:update -> SessionManager.updateParticipantLocation ----
\* (mutant) the position is stored but lastSeen is not refreshed
WithLocation_StaleLastSeen(participant, location, now) ==
  [participant EXCEPT !.location = [at |-> location, timestamp |-> now]]
\* participant.location = {lat, lng, timestamp: Date.now()}; lastSeen = Date.now()
WithLocation(participant, location, now) ==
  [participant EXCEPT !.location = [at |-> location, timestamp |-> now], !.lastSeen = now]
\* Date.now() never reads less than a reading stored before.
ClockReadings(session) ==
  {now \in Times : \A q \in DOMAIN session.participants :
                     session.participants[q].lastSeen <= now}

\* The checks of updateParticipantLocation: the participant is indexed to an
\* active session that holds it.
LocationAccepted(participantId) ==
  /\ participantId \in DOMAIN participantSessions
  /\ participantSessions[participantId] \in DOMAIN activeSessions
  /\ activeSessions[participantSessions[participantId]].isActive
  /\ participantId \in
       DOMAIN activeSessions[participantSessions[participantId]].participants

LocationUpdate(c, participantId, location) ==
  /\ pending[c].op = "idle"
  /\ IF LocationAccepted(participantId)
     THEN LET sessionId == participantSessions[participantId]
              session == activeSessions[sessionId] IN
          \E now \in ClockReadings(session) :
            /\ activeSessions' = [activeSessions EXCEPT ![sessionId].participants[participantId] =
                                    WithLocation(@, location, now)]
            /\ emitted' = << [ev |-> "location:updated", sid |-> sessionId,
                              pid |-> participantId, location |-> location,
                              to |-> {d \in Conns : sessionId \in rooms[d]} \ {c}] >>
            /\ last' = Outcome("location", c, TRUE, sessionId, participantId, None, {})
     ELSE /\ last' = Outcome("location", c, FALSE, None, participantId, None, {})
          /\ emitted' = << >>
          /\ UNCHANGED activeSessions
  /\ UNCHANGED <<sessionsByPin, participantSessions, dbSessions, dbRoutes, expired, rooms,
                 pending, sweep, nextSid, nextPid>>

\* ---- POST /api/location ----
\* The coordinates of the sample positions: position 1 lies on the equator.
Lat(location) == location - 1
Lng(location) == location
\* !sessionId || !participantId || !location || !location.lat || !location.lng
ApiFieldsMissing(sessionId, participantId, location) ==
  \/ sessionId = None
  \/ participantId = None
  \/ Lat(location) = 0
  \/ Lng(location) = 0

\* The request is validated (400), then handled by updateParticipantLocation (404
\* when it refuses) and broadcast with io.to to the whole room.
ApiLocation(sessionId, participantId, location) ==
  /\ IF ApiFieldsMissing(sessionId, participantId, location)
     THEN /\ last' = [Outcome("api-location", None, FALSE, None, participantId, None, {})
                        EXCEPT !.error = "400"]
          /\ emitted' = << >>
          /\ UNCHANGED activeSessions
     ELSE IF LocationAccepted(participantId)
     THEN LET sid == participantSessions[participantId]
              session == activeSessions[sid] IN
          \E now \in ClockReadings(session) :
            /\ activeSessions' = [activeSessions EXCEPT ![sid].participants[participantId] =
                                    WithLocation(@, location, now)]
            /\ emitted' = << [ev |-> "location:updated", sid |-> sid,
                              pid |-> participantId, location |-> location,
                              to |-> {d \in Conns : sid \in rooms[d]}] >>
            /\ last' = Outcome("api-location", None, TRUE, sid, participantId, None, {})
     ELSE /\ last' = [Outcome("api-location", None, FALSE, None, participantId, None, {})
                        EXCEPT !.error = "404"]
          /\ emitted' = << >>
          /\ UNCHANGED activeSessions
  /\ UNCHANGED <<sessionsByPin, participantSessions, dbSessions, dbRoutes, expired, rooms,
                 pending, sweep, nextSid, nextPid>>

\* ---- session:rejoin -> SessionManager.getParticipantSession ----
getParticipantSession(participantId) ==
  IF /\ participantId \in DOMAIN participantSessions
     /\ participantSessions[participantId] \in DOMAIN activeSessions
  THEN participantSessions[participantId] ELSE None
\* (mutant) a participant the session no longer holds is let back in
RejoinAdmits_Grace(sessionId, participantId) ==
  sessionId \in DOMAIN activeSessions /\ activeSessions[sessionId].isActive
\* The checks of the handler: the participant's session is active, it is the
\* session named, and it still holds the participant.
RejoinAdmits(sessionId, participantId) ==
  LET sid == getParticipantSession(participantId) IN
  /\ sid # None
  /\ activeSessions[sid].isActive
  /\ sid = sessionId
  /\ participantId \in DOMAIN activeSessions[sid].participants

Rejoin(c, sessionId, participantId) ==
  /\ pending[c].op = "idle"
  /\ IF RejoinAdmits(sessionId, participantId)
     THEN /\ activeSessions' = [activeSessions EXCEPT
                                  ![sessionId].participants[participantId].isOnline = TRUE]
          /\ rooms' = [rooms EXCEPT ![c] = @ \cup {sessionId}]
          /\ emitted' = << Emit("session:joined", c, sessionId, participantId, rooms') >>
          /\ last' = Outcome("rejoin", c, TRUE, sessionId, participantId, None,
                             SnapshotOf(activeSessions', sessionId))
     ELSE /\ last' = Outcome("rejoin", c, FALSE, sessionId, participantId, None, {})
          /\ emitted' = << >>
          /\ UNCHANGED <<activeSessions, rooms>>
  /\ UNCHANGED <<sessionsByPin, participantSessions, dbSessions, dbRoutes, expired, pending,
                 sweep, nextSid, nextPid>>

\* ---- disconnect ----
\* (mutant) the drop of a connection is handled as an absence: the participants of
\* the sessions the socket had joined are marked offline
Disconnect_MarksOffline(c) ==
  /\ rooms' = [rooms EXCEPT ![c] = {}]
  /\ activeSessions' =
       [s \in DOMAIN activeSessions |->
          IF s \in rooms[c]
          THEN [activeSessions[s] EXCEPT !.participants =
                  [p \in DOMAIN activeSessions[s].participants |->
                     [activeSessions[s].participants[p] EXCEPT !.isOnline = FALSE]]]
          ELSE activeSessions[s]]
  /\ last' = Outcome("disconnect", c, TRUE, None, None, None, {})
  /\ emitted' = << >>
  /\ UNCHANGED <<sessionsByPin, participantSessions, dbSessions, dbRoutes, expired, pending,
                 sweep, nextSid, nextPid>>
\* The handler only logs; the socket has left its rooms.  A request of the
\* connection that is suspended at the gateway goes on.
Disconnect(c) ==
  /\ rooms' = [rooms EXCEPT ![c] = {}]
  /\ last' = Outcome("disconnect", c, TRUE, None, None, None, {})
  /\ emitted' = << >>
  /\ UNCHANGED <<mem, dbSessions, dbRoutes, expired, pending, sweep, nextSid, nextPid>>

\* ---- session:validate-manager -> SessionManager.validateManager ----
\* (mutant) only the manager that created the session is let in
ValidateAdmits_OwnerOnly(session, managerId) ==
  session.isActive /\ session.managerId = managerId
\* "any manager can manage any active session": managerId is not looked at
ValidateAdmits(session, managerId) == session.isActive

\* The session is in memory: answered at once.  Otherwise the row is looked up.
ValidateStart(c, sessionId, managerId) ==
  /\ pending[c].op = "idle"
  /\ IF sessionId \in DOMAIN activeSessions
     THEN /\ IF ValidateAdmits(activeSessions[sessionId], managerId)
             THEN /\ rooms' = [rooms EXCEPT ![c] = @ \cup {sessionId}]
                  /\ last' = Outcome("validate", c, TRUE, sessionId, managerId, None,
                                     SnapshotOf(activeSessions, sessionId))
             ELSE /\ last' = Outcome("validate", c, FALSE, sessionId, managerId, None, {})
                  /\ UNCHANGED rooms
          /\ UNCHANGED pending
     ELSE /\ pending' = [pending EXCEPT ![c] =
                           [Idle EXCEPT !.op = "validate", !.pc = "findUnique", !.live = FALSE,
                                        !.sid = sessionId, !.pid = managerId]]
          /\ last' = Await(c)
          /\ UNCHANGED rooms
  /\ emitted' = << >>
  /\ UNCHANGED <<mem, dbSessions, dbRoutes, expired, sweep, nextSid, nextPid>>

\* getSessionFromDatabase: prisma.session.findUnique (null on a gateway error); an
\* active row is mapped and returned without being cached.
ValidateFind(c) ==
  /\ pending[c].op = "validate" /\ pending[c].pc = "findUnique"
  /\ LET p == pending[c] IN
     \E up \in BOOLEAN :
       IF /\ up /\ p.sid \in DOMAIN dbSessions
          /\ ValidateAdmits(mapPrismaSessionToSession(IncludeRoute(p.sid)), p.pid)
       THEN /\ rooms' = [rooms EXCEPT ![c] = @ \cup {p.sid}]
            /\ last' = Outcome("validate", c, TRUE, p.sid, p.pid, None, {})
       ELSE /\ last' = Outcome("validate", c, FALSE, p.sid, p.pid, None, {})
            /\ UNCHANGED rooms
  /\ pending' = [pending EXCEPT ![c] = Idle]
  /\ emitted' = << >>
  /\ UNCHANGED <<mem, dbSessions, dbRoutes, expired, sweep, nextSid, nextPid>>

\* ---- message:send ----
\* (mutant) a direct message is kept from the room
MessageRecipients_DirectWithheld(c, sessionId, type) ==
  IF type = "broadcast" THEN {d \in Conns : sessionId \in rooms[d]} \ {c} ELSE {}
\* socket.to(data.sessionId): both branches of the handler
MessageRecipients(c, sessionId, type) ==
  IF type = "broadcast"
  THEN {d \in Conns : sessionId \in rooms[d]} \ {c}
  ELSE {d \in Conns : sessionId \in rooms[d]} \ {c}

MessageSend(c, sessionId, fromId, toId, type, content) ==
  /\ pending[c].op = "idle"
  /\ \E now \in Times, nonce \in Nonces :
       emitted' = << [ev |-> "message:received", sid |-> sessionId, pid |-> fromId,
                      id |-> <<now, nonce>>, fromId |-> fromId, toId |-> toId,
                      content |-> content, timestamp |-> now, type |-> type,
                      to |-> MessageRecipients(c, sessionId, type)] >>
  /\ last' = [Outcome("message", c, TRUE, sessionId, fromId, None, {}) EXCEPT !.snap = {content}]
  /\ UNCHANGED <<mem, dbSessions, dbRoutes, expired, rooms, pending, sweep, nextSid, nextPid>>

\* ---- specifications ----
\* Spec: every session operation on the connections, the hourly job and the clock,
\* for the lifetime of LifeSessions sessions.
Next ==
  \/ \E c \in Conns :
       /\ getAllActiveSessions # {} \/ nextSid + CreatesInFlight < LifeSessions
       /\ CreateStart(c, None)
  \/ \E c \in Conns : CreateFindFirst(c)
  \/ \E c \in Conns : CreateInsert(c)
  \/ \E c \in Conns, pin \in Pins : JoinSession(c, pin)
  \/ \E c \in Conns, pin \in Pins, managerId \in CallerIds : JoinAsManager(c, pin, managerId)
  \/ \E c \in Conns, participantId \in PIDs : LeaveStart(c, participantId)
  \/ \E c \in Conns : LeaveEndUpdate(c)
  \/ \E c \in Conns, sessionId \in SIDs, managerId \in PIDs : EndStart(c, sessionId, managerId)
  \/ \E c \in Conns : EndUpdate(c)
  \/ CleanupDelete
  \/ CleanupReload
  \/ \E s \in SIDs : TimePasses(s)

Spec == Init /\ [][Next]_vars

\* SpecRace: managers only (no joins), up to MaxSessions sessions: concurrent
\* session:create, session:leave and session:end requests against the job and the clock.
NextRace ==
  \/ \E c \in Conns : CreateStart(c, None)
  \/ \E c \in Conns : CreateFindFirst(c)
  \/ \E c \in Conns : CreateInsert(c)
  \/ \E c \in Conns, participantId \in UuidPIDs : LeaveStart(c, participantId)
  \/ \E c \in Conns : LeaveEndUpdate(c)
  \/ \E c \in Conns, sessionId \in SIDs, managerId \in UuidPIDs : EndStart(c, sessionId, managerId)
  \/ \E c \in Conns : EndUpdate(c)
  \/ CleanupDelete
  \/ CleanupReload
  \/ \E s \in SIDs : TimePasses(s)

SpecRace == Init /\ [][NextRace]_vars

\* SpecRoute: one session, with or without a route, and its manager: the route
\* requests (from the manager and from others), the manager's location updates and
\* the route library.
NextRoute ==
  \/ \E c \in Conns, rid \in {None} \cup RouteIds :
       /\ getAllActiveSessions # {} \/ nextSid + CreatesInFlight < LifeSessions
       /\ CreateStart(c, rid)
  \/ \E c \in Conns : CreateFindFirst(c)
  \/ \E c \in Conns : CreateGetRoute(c)
  \/ \E c \in Conns : CreateInsert(c)
  \/ \E c \in Conns, points \in Points : RouteCreate(c, points)
  \/ \E c \in Conns, sessionId \in SIDs, routeId \in RouteIds, managerId \in UuidPIDs :
       AssignStart(c, sessionId, routeId, managerId)
  \/ \E c \in Conns : AssignGetRoute(c)
  \/ \E c \in Conns : AssignUpdate(c)
  \/ \E c \in Conns, sessionId \in SIDs, points \in Points, managerId \in UuidPIDs :
       CreateRouteStart(c, sessionId, points, managerId)
  \/ \E c \in Conns : CreateRouteInsert(c)
  \/ \E c \in Conns, sessionId \in SIDs, points \in Points, managerId \in UuidPIDs :
       UpdateRouteStart(c, sessionId, points, managerId)
  \/ \E c \in Conns : UpdateRouteFind(c)
  \/ \E c \in Conns : UpdateRouteWrite(c)
  \/ \E c \in Conns, participantId \in UuidPIDs, location \in Locations :
       LocationUpdate(c, participantId, location)

SpecRoute == Init /\ [][NextRoute]_vars

\* SpecPresence: one session, the participants that join it and their positions,
\* reported over the socket and over HTTP.
NextPresence ==
  \/ \E c \in Conns :
       /\ getAllActiveSessions # {} \/ nextSid + CreatesInFlight < LifeSessions
       /\ CreateStart(c, None)
  \/ \E c \in Conns : CreateFindFirst(c)
  \/ \E c \in Conns : CreateInsert(c)
  \/ \E c \in Conns, pin \in Pins : JoinSession(c, pin)
  \/ \E c \in Conns, participantId \in UuidPIDs, location \in Locations :
       LocationUpdate(c, participantId, location)
  \/ \E sessionId \in {None} \cup SIDs, participantId \in UuidPIDs, location \in Locations :
       ApiLocation(sessionId, participantId, location)

SpecPresence == Init /\ [][NextPresence]_vars

\* SpecMessage: one session, the connections subscribed to them, and the messages.
NextMessage ==
  \/ \E c \in Conns :
       /\ getAllActiveSessions # {} \/ nextSid + CreatesInFlight < LifeSessions
       /\ CreateStart(c, None)
  \/ \E c \in Conns : CreateFindFirst(c)
  \/ \E c \in Conns : CreateInsert(c)
  \/ \E c \in Conns, pin \in Pins : JoinSession(c, pin)
  \/ \E c \in Conns, sessionId \in SIDs, fromId \in UuidPIDs, toId \in {None} \cup UuidPIDs,
        type \in {"broadcast", "direct"}, content \in Contents :
       MessageSend(c, sessionId, fromId, toId, type, content)

SpecMessage == Init /\ [][NextMessage]_vars

\* SpecRejoin: one session, its participants and managers coming, leaving and
\* coming back, and the session being ended.
NextRejoin ==
  \/ \E c \in Conns :
       /\ getAllActiveSessions # {} \/ nextSid + CreatesInFlight < LifeSessions
       /\ CreateStart(c, None)
  \/ \E c \in Conns : CreateFindFirst(c)
  \/ \E c \in Conns : CreateInsert(c)
  \/ \E c \in Conns, pin \in Pins : JoinSession(c, pin)
  \/ \E c \in Conns, pin \in Pins, managerId \in CallerIds : JoinAsManager(c, pin, managerId)
  \/ \E c \in Conns, participantId \in PIDs : LeaveStart(c, participantId)
  \/ \E c \in Conns : LeaveEndUpdate(c)
  \/ \E c \in Conns, sessionId \in SIDs, managerId \in PIDs : EndStart(c, sessionId, managerId)
  \/ \E c \in Conns : EndUpdate(c)
  \/ \E c \in Conns, sessionId \in 1..nextSid, participantId \in PIDs :
       Rejoin(c, sessionId, participantId)
  \/ \E c \in Conns, sessionId \in (1..nextSid) \cup {UnknownSid}, managerId \in PIDs :
       ValidateStart(c, sessionId, managerId)
  \/ \E c \in Conns : ValidateFind(c)

SpecRejoin == Init /\ [][NextRejoin]_vars

\* SpecTwo: the sessions that concurrent session:create requests leave behind, and
\* managers joining them and coming back.
NextTwo ==
  \/ \E c \in Conns : CreateStart(c, None)
  \/ \E c \in Conns : CreateFindFirst(c)
  \/ \E c \in Conns : CreateInsert(c)
  \/ \E c \in Conns, pin \in Pins, managerId \in CallerIds : JoinAsManager(c, pin, managerId)
  \/ \E c \in Conns, sessionId \in 1..nextSid, participantId \in PIDs :
       Rejoin(c, sessionId, participantId)

SpecTwo == Init /\ [][NextTwo]_vars

\* The end of a session seen by its subscribers: create, join, leave and the two
\* ways of ending (session:end, the manager's session:leave).
NextEnded ==
  \/ \E c \in Conns :
       /\ getAllActiveSessions # {} \/ nextSid + CreatesInFlight < LifeSessions
       /\ CreateStart(c, None)
  \/ \E c \in Conns : CreateFindFirst(c)
  \/ \E c \in Conns : CreateInsert(c)
  \/ \E c \in Conns, pin \in Pins : JoinSession(c, pin)
  \/ \E c \in Conns, participantId \in PIDs : LeaveStart(c, participantId)
  \/ \E c \in Conns : LeaveEndUpdate(c)
  \/ \E c \in Conns, sessionId \in SIDs, managerId \in PIDs : EndStart(c, sessionId, managerId)
  \/ \E c \in Conns : EndUpdate(c)

SpecEnded == Init /\ [][NextEnded]_vars

\* The route library and the sessions that use it: routes are created and deleted
\* while sessions are created with a route or get one assigned.  Route ids are
\* uuids and never come back: routes are created before the first session, when
\* nothing can still name a deleted one.
NextLibrary ==
  \/ \E c \in Conns, rid \in {None} \cup RouteIds :
       /\ getAllActiveSessions # {} \/ nextSid + CreatesInFlight < LifeSessions
       /\ CreateStart(c, rid)
  \/ \E c \in Conns : CreateFindFirst(c)
  \/ \E c \in Conns : CreateGetRoute(c)
  \/ \E c \in Conns : CreateInsert(c)
  \/ \E c \in Conns, points \in Points :
       /\ nextSid = 0 /\ Quiet
       /\ RouteCreate(c, points)
  \/ \E c \in Conns, sessionId \in SIDs, routeId \in RouteIds, managerId \in UuidPIDs :
       AssignStart(c, sessionId, routeId, managerId)
  \/ \E c \in Conns : AssignGetRoute(c)
  \/ \E c \in Conns : AssignUpdate(c)
  \/ \E c \in Conns, routeId \in RouteIds : RouteDeleteStart(c, routeId)
  \/ \E c \in Conns : RouteDeleteFind(c)
  \/ \E c \in Conns : RouteDeleteCount(c)
  \/ \E c \in Conns : RouteDeleteRow(c)

SpecLibrary == Init /\ [][NextLibrary]_vars

\* Connections that drop and come back: create, join, leave, the drop of a
\* connection and session:rejoin.
NextDrop ==
  \/ \E c \in Conns :
       /\ getAllActiveSessions # {} \/ nextSid + CreatesInFlight < LifeSessions
       /\ CreateStart(c, None)
  \/ \E c \in Conns : CreateFindFirst(c)
  \/ \E c \in Conns : CreateInsert(c)
  \/ \E c \in Conns, pin \in Pins : JoinSession(c, pin)
  \/ \E c \in Conns, participantId \in PIDs : LeaveStart(c, participantId)
  \/ \E c \in Conns : LeaveEndUpdate(c)
  \/ \E c \in Conns : Disconnect(c)
  \/ \E c \in Conns, sessionId \in 1..nextSid, participantId \in PIDs :
       Rejoin(c, sessionId, participantId)

SpecDrop == Init /\ [][NextDrop]_vars

\* ======================= claims =======================

\* C1: no two sessions of the Session Store that are active have the same pin, in
\* every reachable state and for every interleaving of create, leave, end and the job.
C1_UniqueActivePins ==
  \A s, t \in getAllActiveSessions :
    activeSessions[s].pin = activeSessions[t].pin => s = t
\* two sessions are active in the store at once (and their pins differ)
C1_Witness ==
  \E s, t \in getAllActiveSessions : s # t /\ activeSessions[s].pin # activeSessions[t].pin

\* C2: at most one active session exists in the Session Store at any time.
C2_SingleActiveSession == Cardinality(getAllActiveSessions) <= 1

\* C3: every active session of the Session Store has a non-empty participants
\* mapping and its managerId is a key of that mapping.
C3_ManagerIsParticipant ==
  \A s \in getAllActiveSessions :
    /\ DOMAIN activeSessions[s].participants # {}
    /\ activeSessions[s].managerId \in DOMAIN activeSessions[s].participants

\* C4: a joinSession whose pin maps to no session, or to a session that is missing
\* or inactive, fails and leaves the three maps of the Session Store unchanged.
C4_PinInvalid(pin) ==
  \/ pin \notin DOMAIN sessionsByPin
  \/ sessionsByPin[pin] \notin DOMAIN activeSessions
  \/ ~activeSessions[sessionsByPin[pin]].isActive
C4_InvalidJoinFails ==
  [][ (last'.op = "join" /\ C4_PinInvalid(last'.pin)) => (~last'.ok /\ UNCHANGED mem) ]_vars
\* a join was refused while a session was active under another pin
C4_Witness == last.op = "join" /\ ~last.ok /\ getAllActiveSessions # {}

\* C5: a successful joinSession adds exactly one new participant to the session the
\* pin maps to: not a manager, online, under an id the session did not have; every
\* other entry and session is unchanged; the reply's snapshot holds the new
\* participant and the other subscribers get one session:joined naming it.
C5_JoinAddsOne ==
  [][ (last'.op = "join" /\ last'.ok) =>
        LET sid == last'.sid
            pid == last'.pid
            old == activeSessions[sid].participants
            new == activeSessions'[sid].participants IN
        /\ sid = sessionsByPin[last'.pin]
        /\ pid \notin DOMAIN old
        /\ DOMAIN new = (DOMAIN old) \cup {pid}
        /\ \A q \in DOMAIN old : new[q] = old[q]
        /\ new[pid].id = pid /\ new[pid].isOnline
        /\ ~IsManagerFlag(new[pid]) /\ pid # activeSessions[sid].managerId
        /\ activeSessions' = [activeSessions EXCEPT ![sid].participants = new]
        /\ participantSessions' = Put(participantSessions, pid, sid)
        /\ sessionsByPin' = sessionsByPin
        /\ pid \in last'.snap
        /\ emitted' = << [ev |-> "session:joined", sid |-> sid, pid |-> pid,
                          to |-> {d \in Conns : sid \in rooms[d]} \ {last'.conn}] >>
    ]_vars
\* a participant joined a session that another connection is subscribed to
C5_Witness ==
  /\ last.op = "join" /\ last.ok
  /\ Len(emitted) = 1 /\ emitted[1].to # {}
  /\ Cardinality(DOMAIN activeSessions[last.sid].participants) >= 3

\* C6: a createSession answered with the session that already exists
\* leaves the caller attached to it as an additional manager: a participant flagged
\* as manager, indexed, and distinct from the original manager's entry.
C6_CallerBecomesManagerParticipant ==
  (last.op = "create" /\ last.ok /\ last.existing) =>
    \E p \in DOMAIN activeSessions[last.sid].participants :
      /\ p # activeSessions[last.sid].managerId
      /\ IsManagerFlag(activeSessions[last.sid].participants[p])
      /\ p \in DOMAIN participantSessions /\ participantSessions[p] = last.sid

\* C7: a createSession that finds no active session produces a new active session
\* whose participants mapping has exactly one entry, keyed by managerId and flagged
\* isManager = true, with sessionsByPin[pin] and participantSessions[managerId]
\* pointing at the new session.
C7_NewSessionHasFlaggedManager ==
  (last.op = "create" /\ last.ok /\ ~last.existing) =>
    /\ last.sid \in getAllActiveSessions
    /\ DOMAIN activeSessions[last.sid].participants = {activeSessions[last.sid].managerId}
    /\ IsManagerFlag(activeSessions[last.sid].participants[activeSessions[last.sid].managerId])
    /\ sessionsByPin[activeSessions[last.sid].pin] = last.sid
    /\ participantSessions[activeSessions[last.sid].managerId] = last.sid

\* C8: once leaveSession has removed the last manager of a session, the session is
\* ended: it is no longer in the Session Store, no participant index entry and no
\* pin point at it.
C8_ManagerLeaveEndsSession ==
  (last.op = "leave" /\ last.ok /\ last.wasManager) =>
    /\ last.sid \notin DOMAIN activeSessions
    /\ \A p \in DOMAIN participantSessions : participantSessions[p] # last.sid
    /\ \A pin \in DOMAIN sessionsByPin : sessionsByPin[pin] # last.sid

\* C9: when a session has two or more manager participants, the leave of one of
\* them (the creator included) removes that participant only and does not end
\* the session.
C9_Managers(session) ==
  {p \in DOMAIN session.participants :
     p = session.managerId \/ IsManagerFlag(session.participants[p])}
C9_LeaveOfOneManagerKeepsSession ==
  [][ \A c \in Conns :
        ( /\ pending[c].op = "leave" /\ pending'[c].op = "idle"
          /\ pending[c].sid \in DOMAIN activeSessions
          /\ C9_Managers(activeSessions[pending[c].sid]) # {} )
        => pending[c].sid \in DOMAIN activeSessions'
    ]_vars

\* C10: when a participant A that is not a manager leaves a session that also holds
\* a participant B, only A's entry leaves the participants mapping and the participant
\* index, every other entry and field of the session is unchanged, the session stays
\* active, and the other subscribers get exactly one session:left naming A and no
\* session:ended.
C10_ParticipantLeaveRemovesOnlyIt ==
  [][ \A A \in PIDs :
        ( /\ last'.op = "leave" /\ last'.ok /\ last'.pid = A
          /\ A \in DOMAIN participantSessions
          /\ participantSessions[A] \in DOMAIN activeSessions
          /\ LET session == activeSessions[participantSessions[A]] IN
             /\ A \in DOMAIN session.participants
             /\ A # session.managerId /\ ~IsManagerFlag(session.participants[A])
             /\ \E B \in DOMAIN session.participants : B # A )
        => LET sid == participantSessions[A]
               session == activeSessions[sid] IN
           /\ last'.sid = sid
           /\ activeSessions' = [activeSessions EXCEPT ![sid].participants =
                                   [q \in (DOMAIN session.participants) \ {A} |->
                                      session.participants[q]]]
           /\ participantSessions' = [q \in (DOMAIN participantSessions) \ {A} |->
                                        participantSessions[q]]
           /\ sessionsByPin' = sessionsByPin
           /\ activeSessions'[sid].isActive
           /\ emitted' = << [ev |-> "session:left", sid |-> sid, pid |-> A,
                             to |-> {d \in Conns : sid \in rooms[d]} \ {last'.conn}] >>
    ]_vars
\* A left, B and the manager stayed, and another connection was told
C10_Witness ==
  /\ last.op = "leave" /\ last.ok /\ ~last.wasManager
  /\ last.sid \in getAllActiveSessions
  /\ Cardinality(DOMAIN activeSessions[last.sid].participants) >= 2
  /\ activeSessions[last.sid].managerId \in DOMAIN activeSessions[last.sid].participants
  /\ Len(emitted) = 1 /\ emitted[1].to # {}

\* C11: endSession is idempotent.  Once an endSession of a session has succeeded
\* (its row is marked inactive), a later request to end the same session, and any
\* request to end a session the store does not hold, is refused at once: no
\* endSession is started for it, nothing is emitted, and the Session Store, the
\* gateway's rows and the rooms are left as they were.
C11_Ended(sessionId) ==
  sessionId \in DOMAIN dbSessions /\ ~dbSessions[sessionId].isActive
C11_EndSessionIdempotent ==
  [][ \A sessionId \in SIDs :
        (C11_Ended(sessionId) \/ sessionId \notin DOMAIN activeSessions) =>
          /\ \A c \in Conns :
                ~(pending[c].op = "idle" /\ pending'[c].op = "end"
                    /\ pending'[c].sid = sessionId)
          /\ (last'.op = "end" /\ last'.sid = sessionId /\ pending' = pending) =>
                (~last'.ok /\ emitted' = << >> /\ UNCHANGED <<mem, dbSessions, rooms>>)
    ]_vars
\* a session:end arrived for a session that an earlier endSession had ended
C11_Witness ==
  /\ last.op = "end" /\ ~last.ok /\ Quiet
  /\ C11_Ended(last.sid) /\ last.sid \notin DOMAIN activeSessions

\* C12: the pin of an ended session can be used again at once: a createSession
\* that draws the pin of a session that endSession has ended and evicted succeeds
\* and maps the pin to the new session.
C12_EndedPinIsReusable ==
  \A p \in Pins :
    ( /\ last.op = "create" /\ ~last.existing /\ last.pin = p
      /\ \E s \in DOMAIN dbSessions :
            /\ dbSessions[s].pin = p /\ ~dbSessions[s].isActive
            /\ s \notin DOMAIN activeSessions /\ s # last.sid )
    => (last.ok /\ p \in DOMAIN sessionsByPin /\ sessionsByPin[p] = last.sid)

\* C13: a route update (session:update-route, session:create-route or
\* route:assign-to-session) that names a managerId that is not a manager of the
\* target session is never taken up: it is answered with a failure at once, no
\* route:updated is broadcast, and the session's route and routeId (the whole
\* Session Store and the gateway's rows) stay as they were.
C13_NotManager(sessionId, managerId) ==
  \/ sessionId \notin DOMAIN activeSessions
  \/ /\ managerId # activeSessions[sessionId].managerId
     /\ \/ managerId \notin DOMAIN activeSessions[sessionId].participants
        \/ ~IsManagerFlag(activeSessions[sessionId].participants[managerId])
C13_NonManagerRouteUpdateRejected ==
  [][ \A c \in Conns :
        /\ (pending[c].op = "idle" /\ pending'[c].op \in RouteOps) =>
              ~C13_NotManager(pending'[c].sid, pending'[c].pid)
        /\ ( /\ last'.op \in RouteOps /\ last'.conn = c /\ pending' = pending
             /\ C13_NotManager(last'.sid, last'.pid) ) =>
              /\ ~last'.ok
              /\ emitted' = << >>
              /\ UNCHANGED <<mem, dbSessions, dbRoutes>>
    ]_vars
\* a route update naming another id than the manager's was refused for an active session
C13_Witness ==
  /\ last.op \in RouteOps /\ ~last.ok
  /\ last.sid \in getAllActiveSessions
  /\ last.pid # activeSessions[last.sid].managerId

\* C14: a location:update for participant P of an active session stores the
\* position on P, refreshes P's lastSeen, leaves every other participant and
\* every other session as it was, and sends one location:updated to every
\* other connection subscribed to P's session and to no other connection.
C14_LocationUpdateStoresAndNotifies ==
  [][ (last'.op = "location" /\ last'.ok) =>
        LET s == last'.sid
            p == last'.pid
            before == activeSessions[s].participants
            after == activeSessions'[s].participants IN
        /\ Len(emitted') = 1
        /\ emitted'[1].ev = "location:updated"
        /\ emitted'[1].sid = s /\ emitted'[1].pid = p
        /\ emitted'[1].to = {d \in Conns : s \in rooms[d]} \ {last'.conn}
        /\ after[p].location.at = emitted'[1].location
        /\ after[p].lastSeen = after[p].location.timestamp
        /\ after[p].lastSeen >= before[p].lastSeen
        /\ after[p].id = before[p].id /\ after[p].isOnline = before[p].isOnline
        /\ DOMAIN after = DOMAIN before
        /\ \A q \in DOMAIN before \ {p} : after[q] = before[q]
        /\ DOMAIN activeSessions' = DOMAIN activeSessions
        /\ \A t \in DOMAIN activeSessions \ {s} : activeSessions'[t] = activeSessions[t]
        /\ [activeSessions'[s] EXCEPT !.participants = before] = activeSessions[s]
        /\ UNCHANGED <<sessionsByPin, participantSessions, dbSessions, rooms>>
    ]_vars

\* A participant that reported before reports again, later, from a connection
\* other than a subscribed one, next to a second participant.
C14_Witness ==
  /\ last.op = "location" /\ last.ok
  /\ Len(emitted) = 1 /\ emitted[1].to # {}
  /\ Cardinality(DOMAIN activeSessions[last.sid].participants) >= 2
  /\ activeSessions[last.sid].participants[last.pid].lastSeen = MaxTime
  /\ \E q \in DOMAIN activeSessions[last.sid].participants \ {last.pid} :
       activeSessions[last.sid].participants[q].location # NoLocation

\* C15: a message:send is stamped by the server with an id and a timestamp and
\* goes out once, with the content it came with, to every connection subscribed
\* to the session other than the sender's; the recipients are the same for a
\* direct and a broadcast message, whatever toId says.
C15_MessageReachesEveryOtherSubscriber ==
  [][ last'.op = "message" =>
        /\ Len(emitted') = 1
        /\ emitted'[1].ev = "message:received"
        /\ emitted'[1].sid = last'.sid
        /\ last'.snap = {emitted'[1].content}
        /\ emitted'[1].timestamp \in Times
        /\ emitted'[1].id[1] = emitted'[1].timestamp /\ emitted'[1].id[2] \in Nonces
        /\ emitted'[1].to = {d \in Conns : last'.sid \in rooms[d]} \ {last'.conn}
        /\ UNCHANGED <<mem, dbSessions, rooms, pending>>
    ]_vars

\* A direct message addressed to one participant reaches a subscribed connection.
C15_Witness ==
  /\ last.op = "message"
  /\ Len(emitted) = 1
  /\ emitted[1].type = "direct" /\ emitted[1].toId # None
  /\ emitted[1].to # {}
  /\ last.conn \notin emitted[1].to

\* C16: a session:rejoin succeeds, with a snapshot that contains the participant,
\* whenever the session is active and holds the participant; once the session
\* has ended it fails and does not subscribe the connection.
C16_RejoinSucceedsWhileHeld ==
  [][ last'.op = "rejoin" =>
        LET s == last'.sid
            p == last'.pid IN
        /\ (s \in getAllActiveSessions /\ p \in DOMAIN activeSessions[s].participants)
             => (last'.ok /\ p \in last'.snap)
        /\ s \notin getAllActiveSessions
             => (~last'.ok /\ rooms' = rooms)
    ]_vars

C18_ValidateManagerIffActive ==
  [][ last'.op = "validate" =>
        /\ last'.ok <=> last'.sid \in getAllActiveSessions
        /\ UNCHANGED <<mem, dbSessions>>
        /\ last'.ok => last'.sid \in rooms'[last'.conn]
    ]_vars

\* A manager other than the session's own is let in.
C18_Witness ==
  /\ last.op = "validate" /\ last.ok
  /\ last.sid \in getAllActiveSessions
  /\ last.pid # activeSessions[last.sid].managerId
  /\ last.pid \notin DOMAIN activeSessions[last.sid].participants

\* C19: events of one session are handled in the order the server receives them:
\* a location:update is not handled and broadcast to a subscriber while a route update of the same
\* session that was received before it is still waiting for the gateway.
C19_HandledInReceiptOrder ==
  \A c \in Conns : \A i \in 1..Len(emitted) :
    ~( /\ emitted[i].ev = "location:updated" /\ emitted[i].to # {}
       /\ pending[c].op \in RouteOps
       /\ pending[c].sid = emitted[i].sid )

\* C20: when a cleanup sweep that deleted the rows older than 24 hours completes,
\* the Session Store holds no session that is inactive or older than 24 hours.
C20_SweepEvictsOldSessions ==
  [][ (sweep = "reload" /\ sweep' = "idle" /\ expired \cap DOMAIN dbSessions = {}) =>
        /\ \A s \in DOMAIN activeSessions' :
              activeSessions'[s].isActive /\ s \notin expired'
        /\ \A pin \in DOMAIN sessionsByPin' : sessionsByPin'[pin] \notin expired'
        /\ \A p \in DOMAIN participantSessions' : participantSessions'[p] \notin expired'
    ]_vars

\* C21: a cleanup sweep does not disturb a live ride: every active session younger
\* than 24 hours has the same participants mapping (ids, locations, lastSeen), the
\* same pin mapping and the same route after the sweep as before it, and its
\* participants are still indexed to it.
C21_SweepKeepsLiveSessions ==
  [][ (sweep = "reload" /\ sweep' = "idle") =>
        \A s \in getAllActiveSessions \ expired :
          /\ s \in DOMAIN activeSessions'
          /\ activeSessions'[s].isActive
          /\ activeSessions'[s].participants = activeSessions[s].participants
          /\ activeSessions'[s].route = activeSessions[s].route
          /\ activeSessions'[s].pin = activeSessions[s].pin
          /\ sessionsByPin'[activeSessions[s].pin] = sessionsByPin[activeSessions[s].pin]
          /\ \A p \in DOMAIN activeSessions[s].participants :
               p \in DOMAIN participantSessions' /\ participantSessions'[p] = s
    ]_vars

\* C22: every acknowledged request gets exactly one reply: none while it waits for
\* the gateway, one when its handler ends; and the reply is a failure whenever the
\* request ends at a gateway call that raised or found nothing.
C22_AckOps == {"create", "join", "join-as-manager", "rejoin", "validate", "update-route"}
C22_EveryRequestAnsweredOnce ==
  [][ \A c \in Conns :
        /\ (pending[c].op = "idle" /\ pending'[c].op \in C22_AckOps) => last'.op = "step"
        /\ (pending[c].op \in C22_AckOps /\ pending'[c].op = pending[c].op
              /\ pending'[c] # pending[c]) => last'.op = "step"
        /\ (pending[c].op \in C22_AckOps /\ pending'[c].op = "idle") =>
             /\ last'.op = pending[c].op /\ last'.conn = c
             /\ ( \/ pending[c].pc \in {"getRoute", "findRoute"}
                  \/ pending[c].pc \in {"insert", "sessionUpdate"} /\ dbSessions' = dbSessions
                  \/ pending[c].pc = "createRoute" /\ dbRoutes' = dbRoutes )
                => ~last'.ok
    ]_vars

\* C24 as stated: a createSession with a routeId the gateway cannot resolve fails
\* with a route-not-found error and creates nothing.
C24_UnresolvedRouteFailsCreate ==
  [][ (last'.op = "create" /\ last'.rid # None /\ last'.rid \notin DOMAIN dbRoutes) =>
        /\ ~last'.ok /\ last'.error = "Route not found"
        /\ UNCHANGED <<mem, dbSessions>>
    ]_vars

\* C24 (amended): a createSession with a routeId the gateway cannot resolve, unless
\* it is answered with the active session that already exists, fails with a
\* route-not-found error, creates no session in memory or in the gateway and
\* leaves sessionsByPin and participantSessions unchanged.
C24_UnresolvedRouteFailsNewSession ==
  [][ ( /\ last'.op = "create" /\ ~last'.existing
        /\ last'.rid # None /\ last'.rid \notin DOMAIN dbRoutes ) =>
        /\ ~last'.ok /\ last'.error = "Route not found"
        /\ UNCHANGED <<mem, dbSessions, rooms, nextSid, nextPid>>
    ]_vars

\* No session is active and a session:create names a route that does not exist.
C24_Witness ==
  /\ last.op = "create" /\ ~last.ok /\ last.error = "Route not found"
  /\ last.rid # None /\ last.rid \notin DOMAIN dbRoutes
  /\ getAllActiveSessions = {}

\* C25: a manager's route update on a session that has no route yet creates a route
\* and attaches it: whenever such an update is answered with success and
\* route:updated is broadcast, routeId and route of the session in the Session
\* Store are the route that was returned.
C25_ImplicitRouteIsAttached ==
  [][ \A c \in Conns :
        ( /\ pending[c].op = "update-route"
          /\ pending[c].pc \in {"createRoute", "getRoute", "sessionUpdate"}
          /\ pending'[c].op = "idle" /\ last'.ok ) =>
        /\ Len(emitted') = 1 /\ emitted'[1].ev = "route:updated"
        /\ pending[c].sid \in DOMAIN activeSessions'
        /\ activeSessions'[pending[c].sid].routeId = emitted'[1].route.id
        /\ activeSessions'[pending[c].sid].route = emitted'[1].route
    ]_vars

\* C26: when the manager's route update with a list of points succeeds, every
\* other subscriber of the session gets one route:updated whose route carries
\* exactly those points, and that route is the session's route in the Session Store.
C26_RouteUpdateReachesSubscribers ==
  [][ \A c \in Conns :
        (pending[c].op = "update-route" /\ pending'[c].op = "idle" /\ last'.ok) =>
        /\ Len(emitted') = 1 /\ emitted'[1].ev = "route:updated"
        /\ emitted'[1].sid = pending[c].sid
        /\ emitted'[1].route.points = pending[c].points
        /\ emitted'[1].to = {d \in Conns : pending[c].sid \in rooms[d]} \ {c}
        /\ pending[c].sid \in DOMAIN activeSessions'
        /\ activeSessions'[pending[c].sid].route.points = pending[c].points
    ]_vars

\* C23: while the gateway is unavailable the session operations still take their
\* normal effect: a session:end or a manager's session:leave whose gateway call
\* raised (the row is as it was) has nevertheless ended the session in the
\* Session Store: the session is gone and its pin is free.
C23_OutageKeepsSessionOperations ==
  [][ \A c \in Conns :
        ( /\ pending[c].pc = "endUpdate" /\ pending'[c].op = "idle"
          /\ dbSessions' = dbSessions ) =>
        /\ pending[c].sid \notin DOMAIN activeSessions'
        /\ pending[c].pin \notin DOMAIN sessionsByPin'
        /\ \A p \in DOMAIN participantSessions' : participantSessions'[p] # pending[c].sid
    ]_vars

\* C27: the HTTP endpoint handles a location update as the socket event does: it
\* accepts exactly the payloads updateParticipantLocation accepts for the socket,
\* and when it accepts, the participant's stored position is the one sent and one
\* location:updated carrying it goes to the session.
C27_HttpLocationSameAsSocket ==
  [][ last'.op = "api-location" =>
        /\ last'.ok <=> LocationAccepted(last'.pid)
        /\ last'.ok =>
             /\ Len(emitted') = 1 /\ emitted'[1].ev = "location:updated"
             /\ emitted'[1].sid = last'.sid /\ emitted'[1].pid = last'.pid
             /\ activeSessions'[last'.sid].participants[last'.pid].location.at
                  = emitted'[1].location
        /\ ~last'.ok => (emitted' = << >> /\ UNCHANGED mem)
    ]_vars

\* C28: joinAsManager validates the pin as joinSession does: an unknown or
\* inactive pin fails and changes nothing; otherwise it succeeds and the session
\* holds a participant under the manager id the caller supplied, flagged
\* isManager, indexed to the session, and that id is returned as participantId.
C28_PinInvalid(pin) ==
  \/ pin \notin DOMAIN sessionsByPin
  \/ sessionsByPin[pin] \notin DOMAIN activeSessions
  \/ ~activeSessions[sessionsByPin[pin]].isActive
C29_NotManager(sessionId, managerId) ==
  \/ sessionId \notin DOMAIN activeSessions
  \/ /\ managerId # activeSessions[sessionId].managerId
     /\ \/ managerId \notin DOMAIN activeSessions[sessionId].participants
        \/ ~IsManagerFlag(activeSessions[sessionId].participants[managerId])
C29_OnlyManagerEnds ==
  [][ \A c \in Conns :
        /\ (pending[c].op = "idle" /\ pending'[c].op = "end") =>
              ~C29_NotManager(pending'[c].sid, pending'[c].pid)
        /\ (last'.op = "end" /\ pending' = pending) =>
              /\ ~last'.ok /\ emitted' = << >>
              /\ UNCHANGED <<mem, dbSessions, rooms>>
    ]_vars

\* A session:end was refused while the session, with a participant next to its
\* manager, is active and no request is in flight.
C29_Witness ==
  /\ last.op = "end" /\ ~last.ok /\ Quiet
  /\ last.sid \in getAllActiveSessions
  /\ last.sid \in DOMAIN dbSessions /\ dbSessions[last.sid].isActive
  /\ Cardinality(DOMAIN activeSessions[last.sid].participants) >= 2
  /\ activeSessions[last.sid].managerId \in DOMAIN activeSessions[last.sid].participants

\* C30: when the handler that broadcast session:ended for a session (session:end,
\* or the manager's session:leave) completes, the session is no longer active in
\* the Session Store and its pin admits no join.
C30_EndedMeansEnded ==
  [][ \A c \in Conns :
        (pending[c].op \in {"end", "leave"} /\ pending'[c].op = "idle") =>
        /\ pending[c].sid \notin getAllActiveSessions'
        /\ ~( /\ pending[c].pin \in DOMAIN sessionsByPin'
              /\ sessionsByPin'[pending[c].pin] = pending[c].sid )
    ]_vars

\* C31: the three maps of the Session Store agree in every reachable state:
\* participantSessions[p] = s exactly when s is in activeSessions and p is a key of
\* s.participants, and sessionsByPin[pin] = s exactly when s is in activeSessions
\* and s.pin = pin.
C31_IndexesConsistent ==
  /\ \A p \in PIDs, s \in SIDs :
       (p \in DOMAIN participantSessions /\ participantSessions[p] = s)
         <=> (s \in DOMAIN activeSessions /\ p \in DOMAIN activeSessions[s].participants)
  /\ \A pin \in Pins, s \in SIDs :
       (pin \in DOMAIN sessionsByPin /\ sessionsByPin[pin] = s)
         <=> (s \in DOMAIN activeSessions /\ activeSessions[s].pin = pin)

\* C32: with the gateway reachable, a session:end by the session's manager for a
\* session present in the store always ends with the session removed from
\* activeSessions and its pin released, at any point of the session's lifetime and
\* after any number of cleanup sweeps.  A completed request may leave the session
\* in place only when the gateway was down: the row is there and was not written.
C32_ManagerEndAlwaysRemoves ==
  [][ \A c \in Conns :
        (pending[c].op = "end" /\ pending'[c].op = "idle")
          => \/ /\ pending[c].sid \notin DOMAIN activeSessions'
                /\ pending[c].pin \notin DOMAIN sessionsByPin'
             \/ /\ pending[c].sid \in DOMAIN dbSessions
                /\ dbSessions' = dbSessions ]_vars

\* C33: when the gateway call inside endSession fails (the gateway is down or the
\* row is gone), endSession returns false without throwing and the Session Store
\* is left as it was before the call: the session is still present and the pin
\* index and the participant index are intact.
C33_EndUpdateRaised(c) ==
  \/ pending[c].sid \notin DOMAIN dbSessions
  \/ /\ pending[c].sid \in DOMAIN dbSessions'
     /\ dbSessions[pending[c].sid].isActive
     /\ dbSessions'[pending[c].sid].isActive
C33_FailedEndLeavesStore ==
  [][ \A c \in Conns :
        (pending[c].op = "end" /\ pending'[c].op = "idle" /\ C33_EndUpdateRaised(c))
          => /\ last'.op = "end" /\ ~last'.ok
             /\ activeSessions' = activeSessions
             /\ sessionsByPin' = sessionsByPin
             /\ participantSessions' = participantSessions ]_vars
C33_Witness ==
  /\ last.op = "end" /\ ~last.ok /\ last.error = "Error ending session"
  /\ last.sid \in DOMAIN activeSessions
  /\ activeSessions[last.sid].pin \in DOMAIN sessionsByPin
  /\ sessionsByPin[activeSessions[last.sid].pin] = last.sid
  /\ \E p \in DOMAIN participantSessions : participantSessions[p] = last.sid

\* C34: every subscribed connection receives session:ended at most once for a
\* session, whatever session:end requests and manager's session:leave are
\* processed.  In particular a connection that one request has just delivered
\* session:ended of session s to is not delivered it again by the next request.
C34_EndedDelivered(events, d, s) ==
  \E i \in 1..Len(events) :
    events[i].ev = "session:ended" /\ events[i].sid = s /\ d \in events[i].to
C34_EndedAtMostOnce ==
  [][ \A d \in Conns, s \in SIDs :
        C34_EndedDelivered(emitted, d, s) => ~C34_EndedDelivered(emitted', d, s) ]_vars

\* C35: once every route request in flight has completed, whatever the
\* interleaving of session:update-route, session:create-route and
\* route:assign-to-session was, the route held in memory by a session is the route
\* the gateway stores for the session's routeId, and session.route.id is
\* session.routeId.
C35_RouteSnapshotMatchesGateway ==
  Quiet =>
    \A s \in DOMAIN activeSessions :
      LET session == activeSessions[s] IN
      IF session.routeId = None
      THEN session.route = NoRoute
      ELSE /\ session.route # NoRoute
           /\ session.route.id = session.routeId
           /\ session.routeId \in DOMAIN dbRoutes
           /\ session.route = RouteOf(session.routeId)

\* C36: a route that an active session refers to is never deleted: whatever the
\* interleaving with a createSession(routeId) or a route:assign-to-session,
\* route:delete fails for such a route and its row stays.
C36_ReferencedRouteNeverDeleted ==
  [][ \A rid \in RouteIds :
        (\E s \in DOMAIN activeSessions :
            activeSessions[s].isActive /\ activeSessions[s].routeId = rid)
          => /\ rid \in DOMAIN dbRoutes => rid \in DOMAIN dbRoutes'
             /\ last'.op = "route:delete" /\ last'.rid = rid => ~last'.ok ]_vars

\* C37: the drop of a connection without a session:leave changes nothing in the
\* Session Store: the participants stay in their sessions with isOnline as it
\* was, the session stays active also when the connection was its manager's, and
\* a session:rejoin that follows, naming a session and a participant the session
\* holds, succeeds and subscribes the connection again.
C37_DisconnectKeepsStore ==
  [][ /\ last'.op = "disconnect"
        => /\ activeSessions' = activeSessions
           /\ sessionsByPin' = sessionsByPin
           /\ participantSessions' = participantSessions
           /\ dbSessions' = dbSessions
      /\ ( /\ last.op = "disconnect" /\ last'.op = "rejoin"
           /\ last'.sid \in DOMAIN activeSessions
           /\ activeSessions[last'.sid].isActive
           /\ last'.pid \in DOMAIN activeSessions[last'.sid].participants )
        => /\ last'.ok
           /\ last'.sid \in rooms'[last'.conn]
           /\ last'.pid \in last'.snap ]_vars
C37_Witness ==
  /\ last.op = "disconnect"
  /\ \A d \in Conns : rooms[d] = {}
  /\ \E s \in DOMAIN activeSessions :
       /\ activeSessions[s].isActive
       /\ Cardinality(DOMAIN activeSessions[s].participants) >= 2
       /\ \A p \in DOMAIN activeSessions[s].participants :
            activeSessions[s].participants[p].isOnline /\ p \in DOMAIN participantSessions

\* C38: a connection causes events only in a session it belongs to: a
\* message:send, location:update or session:leave issued by a connection that is
\* not subscribed to session S delivers no event to the subscribers of S and
\* changes nothing of S in the Session Store.
C38_OutsiderCausesNothing ==
  [][ ( /\ last'.op \in {"message", "location", "leave"}
        /\ last'.conn \in Conns
        /\ last'.sid \in SIDs
        /\ last'.sid \notin rooms[last'.conn] )
        => /\ \A i \in 1..Len(emitted') : emitted'[i].to = {}
           /\ activeSessions' = activeSessions ]_vars
====
